---- MODULE Spec2Model ----
(***************************************************************************)
(* Model of the documentation page renderer (components/doc.tsx, shipped   *)
(* in src/components/meta.tsx): DocPage, CodeBlock, Doc, DocToc and        *)
(* parseUsage.                                                             *)
(*                                                                         *)
(* Strings are sequences of tokens.  Names, items and package names are    *)
(* spelled character by character (one-character tokens), so that split,   *)
(* pop and join are computed; the fixed fragments of a template literal    *)
(* or of a URL are one token each.  The JavaScript value undefined is the  *)
(* one-token sequence Undefined, which no string over the alphabet equals. *)
(***************************************************************************)
EXTENDS Naturals, Sequences, FiniteSets

VARIABLES store,   \* shared.ts `store.state`: entries, url, includePrivate, namespaces
          frame,   \* locals of the last DocPage invocation
          page,    \* value returned by the last DocPage invocation
          uargs,   \* arguments of parseUsage
          usage,   \* value returned by parseUsage
          children,\* argument (the node list) of CodeBlock / DocToc
          code,    \* value returned by CodeBlock
          toc      \* value returned by DocToc

vars == <<store, frame, page, uargs, usage, children, code, toc>>

\* ---------------------------------------------------------------- bounds
MaxSegs == 3     \* dot-separated segments of an item
MaxNodes == 3    \* nodes handed to CodeBlock / DocToc

\* ------------------------------------------------------- JavaScript values
Undefined == <<"undefined">>
None == [tag |-> "none"]

Truthy(s) == s # Undefined /\ s # <<>>

RECURSIVE Split(_)
\* String.prototype.split(".")
Split(s) ==
  IF s = <<>> THEN << <<>> >>
  ELSE IF Head(s) = "." THEN << <<>> >> \o Split(Tail(s))
  ELSE LET r == Split(Tail(s)) IN << <<Head(s)>> \o Head(r) >> \o Tail(r)

RECURSIVE Join(_)
\* Array.prototype.join(".")
Join(parts) ==
  IF parts = <<>> THEN <<>>
  ELSE IF Len(parts) = 1 THEN parts[1]
  ELSE parts[1] \o <<".">> \o Join(Tail(parts))

\* Array.prototype.pop(): the array left behind
Front(a) == SubSeq(a, 1, Len(a) - 1)
\* Array.prototype.pop(): the element returned
Last(a) == a[Len(a)]

StartsWith(s, p) == Len(s) >= Len(p) /\ SubSeq(s, 1, Len(p)) = p
EndsWith(s, p) == Len(s) >= Len(p) /\ SubSeq(s, Len(s) - Len(p) + 1, Len(s)) = p

\* Array.prototype.find over the set of indices that satisfy the callback:
\* the first of them, 0 when there is none
FindIndex(hits) ==
  IF hits = {} THEN 0 ELSE CHOOSE i \in hits : \A j \in hits : i <= j

\* ------------------------------------------------------------- doc nodes
Kinds == {"namespace", "class", "enum", "variable", "function", "interface",
          "typeAlias", "moduleDoc", "import"}

NoJsDoc == [defined |-> FALSE, doc |-> <<>>, tags |-> {}]
JsDocOf(doc, tags) == [defined |-> TRUE, doc |-> doc, tags |-> tags]

\* A DocNode.  id stands for the object's identity; the children of a
\* namespace are reached through namespaceDef (see the inputs below).
Node(id, name, kind, jsDoc, abs) ==
  [id |-> id, name |-> name, kind |-> kind, jsDoc |-> jsDoc, isAbstract |-> abs]

\* ------------------------------------------------------------ the inputs
cN == <<"N">>
cM == <<"M">>
cC == <<"C">>

Leaf(id, name, kind) == Node(id, name, kind, NoJsDoc, FALSE)

\* declare namespace N { namespace M { abstract class C; function C (x2) }
\*                       interface C; const C; import C }
InnerM == Node(4, cM, "namespace", NoJsDoc, FALSE)

InnerMElements ==
  << Node(1, cC, "class", JsDocOf(<<"c">>, {"deprecated"}), TRUE),
     Leaf(2, cC, "function"),
     Node(3, cC, "function", JsDocOf(<<"f">>, {}), FALSE) >>

OuterN == Node(9, cN, "namespace", JsDocOf(<<"n">>, {}), FALSE)

OuterNElements ==
  << InnerM, Leaf(5, cC, "interface"), Leaf(6, cC, "variable"),
     Leaf(7, cC, "import") >>

\* declare namespace M { type C }
OuterM == Node(11, cM, "namespace", NoJsDoc, FALSE)

OuterMElements == << Leaf(10, cC, "typeAlias") >>

ModuleEntries ==
  << Node(12, <<>>, "moduleDoc", JsDocOf(<<"m">>, {}), FALSE),
     Leaf(18, cN, "variable"), OuterN, OuterM,
     Leaf(13, cC, "class"), Leaf(14, cC, "import"),
     Leaf(16, cC, "function"), Leaf(17, cC, "enum") >>

\* namespace.namespaceDef.elements
namespaceDef(node) ==
  CASE node.id = 4 -> InnerMElements
    [] node.id = 9 -> OuterNElements
    [] node.id = 11 -> OuterMElements
    [] OTHER -> <<>>

EntryLists == {ModuleEntries}

UrlX ==
  <<"https://", "deno.land/x", "/", "m", "y", "-", "p", "@", "1", "/",
    "m", "o", "d", ".ts">>

UrlStd ==
  <<"https://", "deno.land/std", "/", "f", "s", "/", "m", "o", "d", ".ts">>

UrlDts == <<"https://", "deno.land/x", "/", "p", "/", "m", "o", "d", ".d.ts">>

UrlLib == <<"deno/", "s", "t", "a", "b", "l", "e">>

Urls == {UrlX, UrlStd, UrlDts, UrlLib}

\* the specifiers the module of the store is loaded from
StoreUrls == {UrlX, UrlLib}

Segments == {cN, cM, cC, <<>>}

\* the strings of 1..MaxSegs segments joined by dots
Items == {Join(p) : p \in UNION {[1..n -> Segments] : n \in 1..MaxSegs}}

\* the lists of 0..MaxNodes nodes of any kinds sharing the name A
NodeLists ==
  {[i \in 1..Len(k) |-> Leaf(i, <<"A">>, k[i])] :
     k \in UNION {[1..n -> Kinds] : n \in 0..MaxNodes}}

\* ------------------------------------------------- per-kind dispatchers
Element(renderer, ns) == [block |-> renderer, nodes |-> ns]

FnNodes(ns) == SelectSeq(ns, LAMBDA n : n.kind = "function")

isTypeOnly(ns) ==
  \A i \in 1..Len(ns) : ns[i].kind = "interface" \/ ns[i].kind = "typeAlias"

\* the switch of CodeBlock: what one node pushes
CodeBlockCase(node) ==
  CASE node.kind = "class" -> << Element("ClassCodeBlock", <<node>>) >>
    [] node.kind = "enum" -> << Element("EnumCodeBlock", <<node>>) >>
    [] node.kind = "interface" -> << Element("InterfaceCodeBlock", <<node>>) >>
    [] node.kind = "typeAlias" -> << Element("TypeAliasCodeBlock", <<node>>) >>
    [] node.kind = "variable" -> << Element("VariableCodeBlock", <<node>>) >>
    [] OTHER -> <<>>

RECURSIVE CodeBlockLoop(_)
\* the for loop of CodeBlock
CodeBlockLoop(ns) ==
  IF ns = <<>> THEN <<>> ELSE CodeBlockCase(Head(ns)) \o CodeBlockLoop(Tail(ns))

RECURSIVE CodeBlockPerOverload(_)
CodeBlockPerOverload(ns) ==
  IF ns = <<>> THEN <<>>
  ELSE (IF Head(ns).kind = "function"
        THEN << Element("FnCodeBlock", <<Head(ns)>>) >>
        ELSE CodeBlockCase(Head(ns))) \o CodeBlockPerOverload(Tail(ns))

CodeBlock(ns) ==
  LET fnNodes == FnNodes(ns) IN
  CodeBlockLoop(ns) \o
    (IF Len(fnNodes) # 0 THEN << Element("FnCodeBlock", fnNodes) >> ELSE <<>>)

\* the switch of Doc: what one node pushes
DocCase(node, path) ==
  CASE node.kind = "class" -> << Element("ClassDoc", <<node>>) >>
    [] node.kind = "enum" -> << Element("EnumDoc", <<node>>) >>
    [] node.kind = "interface" -> << Element("InterfaceDoc", <<node>>) >>
    [] node.kind = "namespace" ->
         << [block |-> "NamespaceDoc", nodes |-> <<node>>, path |-> path] >>
    [] node.kind = "typeAlias" -> << Element("TypeAliasDoc", <<node>>) >>
    [] OTHER -> <<>>

RECURSIVE DocLoop(_, _)
\* the for loop of Doc
DocLoop(ns, path) ==
  IF ns = <<>> THEN <<>> ELSE DocCase(Head(ns), path) \o DocLoop(Tail(ns), path)

Doc(ns, path) ==
  LET fnNodes == FnNodes(ns) IN
  DocLoop(ns, path) \o
    (IF Len(fnNodes) # 0 THEN << Element("FnDoc", fnNodes) >> ELSE <<>>)

\* a component that renders nothing (JavaScript undefined in element position)
Nothing == [tag |-> "undefined"]
Toc(renderer, node) == [tag |-> "toc", renderer |-> renderer, node |-> node]

\* the switch of DocToc
DocTocCase(node) ==
  CASE node.kind = "class" -> Toc("ClassToc", node)
    [] node.kind = "enum" -> Toc("EnumToc", node)
    [] node.kind = "interface" -> Toc("InterfaceToc", node)
    [] node.kind = "namespace" -> Toc("NamespaceToc", node)
    [] node.kind = "typeAlias" -> Toc("TypeAliasToc", node)
    [] OTHER -> Nothing

DocTocFirstOfPair(ns) ==
  IF Len(ns) = 0 THEN Nothing
  ELSE IF Len(ns) > 1
    THEN IF Len(ns) = 2
           THEN IF \E i \in 1..2 : ns[i].kind = "interface"
                  THEN DocTocCase(ns[1])
                  ELSE Nothing
           ELSE Nothing
    ELSE DocTocCase(ns[1])

DocToc(ns) ==
  IF Len(ns) = 0 THEN Nothing
  ELSE IF Len(ns) > 1
    THEN IF Len(ns) = 2
           THEN LET maybeNode ==
                      FindIndex({i \in 1..Len(ns) : ns[i].kind = "interface"})
                IN
                IF maybeNode # 0 THEN DocTocCase(ns[maybeNode]) ELSE Nothing
           ELSE Nothing
    ELSE DocTocCase(ns[1])

\* ------------------------------------------------------------ util.ts
Null == [tag |-> "null"]

Registries == {"deno.land/x", "deno.land/std"}

RECURSIVE TakeUntil(_, _)
\* the longest prefix of s holding no token of stop
TakeUntil(s, stop) ==
  IF s = <<>> \/ Head(s) \in stop THEN <<>>
  ELSE <<Head(s)>> \o TakeUntil(Tail(s), stop)

DropLen(s, n) == SubSeq(s, n + 1, Len(s))

OrUndefined(s) == IF s = <<>> THEN Undefined ELSE s

\* util.ts parseURL: the fields of a registry specifier, Null for any other
\* string
parseURL(url) ==
  IF Len(url) >= 3 /\ url[1] = "https://" /\ url[2] \in Registries /\ url[3] = "/"
  THEN LET rest == DropLen(url, 3)
           pkg == IF url[2] = "deno.land/std" THEN <<>>
                  ELSE TakeUntil(rest, {"@", "/"})
           r1 == DropLen(rest, Len(pkg))
           ver == IF r1 # <<>> /\ Head(r1) = "@"
                  THEN TakeUntil(Tail(r1), {"/"}) ELSE <<>>
           r2 == IF r1 # <<>> /\ Head(r1) = "@" THEN DropLen(r1, Len(ver) + 1) ELSE r1
           mod == IF r2 # <<>> /\ Head(r2) = "/" THEN Tail(r2) ELSE r2
       IN [tag |-> "parsed", registry |-> <<url[2]>>, org |-> Undefined,
           package |-> OrUndefined(pkg), version |-> OrUndefined(ver),
           module |-> OrUndefined(mod)]
  ELSE Null

toUpperCase(c) ==
  CASE c = "m" -> "M" [] c = "y" -> "Y" [] c = "p" -> "P"
    [] c = "o" -> "O" [] c = "d" -> "D" [] OTHER -> c

toLowerCase(c) ==
  CASE c = "M" -> "m" [] c = "Y" -> "y" [] c = "P" -> "p"
    [] c = "O" -> "o" [] c = "D" -> "d" [] OTHER -> c

RECURSIVE camelizeFrom(_, _, _)
\* wordStart: the next character opens a word; later: a separator was seen
camelizeFrom(str, wordStart, later) ==
  IF str = <<>> THEN <<>>
  ELSE IF Head(str) \in {"-", "_", " "}
    THEN camelizeFrom(Tail(str), TRUE, TRUE)
    ELSE << IF wordStart /\ later THEN toUpperCase(Head(str))
            ELSE toLowerCase(Head(str)) >>
         \o camelizeFrom(Tail(str), FALSE, later)

\* util.ts camelize: words split on separators, the first lower-cased, the
\* others capitalised
camelize(str) == camelizeFrom(str, TRUE, FALSE)

\* ------------------------------------------------------------ parseUsage
IsTypeValues == {"true", "false", "undefined"}

Usage(importSymbol, usageSymbol, localVar, importStatement) ==
  [tag |-> "usage", importSymbol |-> importSymbol, usageSymbol |-> usageSymbol,
   localVar |-> localVar, importStatement |-> importStatement]

DefaultSymbolRaw(parsed) ==
  IF parsed.tag = "parsed" /\ parsed.package # Undefined
  THEN parsed.package ELSE <<"m", "o", "d">>

\* camelize(parsed?.package ?? "mod")
DefaultSymbol(parsed) ==
  camelize(IF parsed.tag = "parsed" /\ parsed.package # Undefined
           THEN parsed.package ELSE <<"m", "o", "d">>)

NamedImportUntyped(importSymbol, url, isType) ==
  <<"import ">> \o <<"{ ">> \o importSymbol \o <<" } from \"">> \o url \o <<"\";\n">>

\* `import ${isType ? "type " : ""}{ ${importSymbol} } from "${url}";\n`
NamedImport(importSymbol, url, isType) ==
  <<"import ">> \o (IF isType = "true" THEN <<"type ">> ELSE <<>>)
    \o <<"{ ">> \o importSymbol \o <<" } from \"">> \o url \o <<"\";\n">>

\* `import * as ${importSymbol} from "${url}";\n`
NamespaceImport(importSymbol, url) ==
  <<"import * as ">> \o importSymbol \o <<" from \"">> \o url \o <<"\";\n">>

\* `\nconst { ${usageSymbol} } = ${localVar};\n`
Destructure(usageSymbol, localVar) ==
  <<"\nconst { ">> \o usageSymbol \o <<" } = ">> \o localVar \o <<";\n">>

parseUsage(url, item, isType) ==
  LET parsed == parseURL(url)
      hasParts == item # Undefined
      itemParts == IF hasParts THEN Split(item) ELSE <<>>
      importSymbol == IF hasParts THEN itemParts[1] ELSE DefaultSymbol(parsed)
      pops == hasParts /\ Len(itemParts) > 1
      usageSymbol == IF pops THEN Last(itemParts) ELSE Undefined
      popped == IF pops THEN Front(itemParts) ELSE itemParts
      localVar == IF hasParts THEN Join(popped) ELSE Undefined
      importStatement ==
        (IF Truthy(item) THEN NamedImport(importSymbol, url, isType)
         ELSE NamespaceImport(importSymbol, url))
        \o (IF Truthy(usageSymbol) THEN Destructure(usageSymbol, localVar)
            ELSE <<>>)
  IN Usage(importSymbol, usageSymbol, localVar, importStatement)

\* --------------------------------------------------------------- DocPage
\* common.tsx asCollection: the nodes grouped by kind, source order kept
asCollection(entries, includePrivate) ==
  [k \in Kinds |-> SelectSeq(entries, LAMBDA n : n.kind = k)]

\* common.tsx isAbstract
isAbstract(node) == node.kind = "class" /\ node.isAbstract

\* jsdoc.tsx isDeprecated
isDeprecated(jsDoc) == jsDoc.defined /\ "deprecated" \in jsDoc.tags

IsNamespaceNamed(n, name) == n.kind = "namespace" /\ n.name = name

RECURSIVE ResolveLoopBreak(_, _, _, _)
ResolveLoopBreak(path, i, entries, namespaces) ==
  IF i > Len(path) THEN [entries |-> entries, namespaces |-> namespaces]
  ELSE LET namespace ==
             FindIndex({k \in 1..Len(entries) : IsNamespaceNamed(entries[k], path[i])})
       IN
       IF namespace # 0
       THEN ResolveLoopBreak(path, i + 1, namespaceDef(entries[namespace]),
                             Append(namespaces, entries[namespace]))
       ELSE [entries |-> entries, namespaces |-> namespaces]

RECURSIVE ResolveLoop(_, _, _, _)
\* `for (const name of path)`: iteration i with the loop's entries and namespaces
ResolveLoop(path, i, entries, namespaces) ==
  IF i > Len(path) THEN [entries |-> entries, namespaces |-> namespaces]
  ELSE LET namespace ==
             FindIndex({k \in 1..Len(entries) : IsNamespaceNamed(entries[k], path[i])})
       IN
       IF namespace # 0
       THEN ResolveLoop(path, i + 1, namespaceDef(entries[namespace]),
                        Append(namespaces, entries[namespace]))
       ELSE ResolveLoop(path, i + 1, entries, namespaces)

PrecedingKeepsName(parts) == parts

\* `path` once `path.pop()` has taken the name off
Preceding(parts) == Front(parts)

TargetNodesWithImports(entries, name) ==
  SelectSeq(entries, LAMBDA e : e.name = name)

\* entries.filter((e) => e.name === name && e.kind !== "import")
TargetNodes(entries, name) ==
  SelectSeq(entries, LAMBDA e : e.name = name /\ e.kind # "import")

SetNamespacesNarrowing(state, namespaces) ==
  [state EXCEPT !.namespaces = namespaces,
                !.entries = IF namespaces = <<>> THEN @
                            ELSE namespaceDef(namespaces[Len(namespaces)])]

SetNamespacesAppend(state, namespaces) ==
  [state EXCEPT !.namespaces = @ \o namespaces]

\* state.namespaces = namespaces; store.setState(state)
SetNamespaces(state, namespaces) ==
  [state EXCEPT !.namespaces = namespaces]

ErrorPageNoUrl(item, url) ==
  [tag |-> "error", header |-> <<"Deno Doc">>, title |-> <<"Entry not found">>,
   message |-> << <<"The document entry named \"">>, item,
                  <<"\" was not found.">> >>]

\* the <main> returned when no node matches: ErrorMessage and its children
ErrorPage(item, url) ==
  [tag |-> "error", header |-> <<"Deno Doc">>, title |-> <<"Entry not found">>,
   message |-> << <<"The document entry named \"">>, item,
                  <<"\" was not found in specifier \"">>, url, <<"\".">> >>]

\* the first node carrying a doc comment
FirstJsDoc(ns) ==
  LET i == FindIndex({k \in 1..Len(ns) : ns[k].jsDoc.defined}) IN
  IF i # 0 THEN ns[i].jsDoc ELSE NoJsDoc

UsageBlock(url, library, item, isType) ==
  IF EndsWith(url, <<".d.ts">>) \/ library THEN Nothing
  ELSE parseUsage(url, item, isType)

\* the <div class="content"> returned for an item
ItemPage(url, library, item, path, ns) ==
  LET jsDoc == FirstJsDoc(ns) IN
  [tag |-> "page",
   meta |-> [url |-> url, doc |-> jsDoc.doc, item |-> item],
   sideBarHeader |-> url,
   toc |-> DocToc(ns),
   title |-> item,
   usage |-> UsageBlock(url, library, item,
                        IF isTypeOnly(ns) THEN "true" ELSE "false"),
   abstract |-> isAbstract(ns[1]),
   deprecated |-> isDeprecated(jsDoc),
   jsDoc |-> jsDoc,
   codeBlock |-> CodeBlock(ns),
   doc |-> [path |-> path, elements |-> Doc(ns, path)]]

\* the <div class="content"> returned for the module itself
ModulePage(url, library, entries, collection) ==
  LET m == FindIndex({k \in 1..Len(entries) : entries[k].kind = "moduleDoc"})
      jsDoc == IF m # 0 THEN entries[m].jsDoc ELSE NoJsDoc
  IN [tag |-> "module",
      meta |-> [url |-> url, doc |-> jsDoc.doc, item |-> Undefined],
      sideBarHeader |-> url,
      moduleToc |-> [library |-> library, collection |-> collection],
      usage |-> UsageBlock(url, library, Undefined, "undefined"),
      docNodes |-> collection]

\* DocPage as a function of the store and the item: the store it leaves,
\* its locals and the element it returns
Render(state, item) ==
  LET url == state.url
      collection == asCollection(state.entries, state.includePrivate)
      library == StartsWith(url, <<"deno/">>)
  IN
  IF Truthy(item)
  THEN LET parts == Split(item)
           name == Last(parts)
           path == Preceding(parts)
           walk == IF Len(path) # 0
                   THEN ResolveLoop(path, 1, state.entries, <<>>)
                   ELSE [entries |-> state.entries, namespaces |-> <<>>]
           ns == TargetNodes(walk.entries, name)
       IN [store |-> IF Len(path) # 0
                     THEN SetNamespaces(state, walk.namespaces) ELSE state,
           frame |-> [tag |-> "item", item |-> item, before |-> state.namespaces,
                      path |-> path, name |-> name, entries |-> walk.entries,
                      namespaces |-> walk.namespaces, nodes |-> ns],
           page |-> IF Len(ns) = 0 THEN ErrorPage(item, url)
                    ELSE ItemPage(url, library, item, path, ns)]
  ELSE [store |-> state,
        frame |-> [tag |-> "module", item |-> item, before |-> state.namespaces],
        page |-> ModulePage(url, library, state.entries, collection)]

DocPage(item) ==
  \E r \in {Render(store, item)} :
    /\ store' = r.store
    /\ frame' = r.frame
    /\ page' = r.page
    /\ UNCHANGED <<uargs, usage, children, code, toc>>

\* ----------------------------------------------------- the state machine
NoArgs == [url |-> <<>>, item |-> Undefined, isType |-> "undefined"]

Init ==
  /\ store \in [entries : EntryLists, url : StoreUrls, includePrivate : BOOLEAN,
                namespaces : {<<>>}]
  /\ frame = None
  /\ page = None
  /\ uargs = NoArgs
  /\ usage = None
  /\ children = <<>>
  /\ code = None
  /\ toc = None

Next == \E item \in Items \cup {Undefined} : DocPage(item)

Spec == Init /\ [][Next]_vars

\* parseUsage applied to its arguments
CallParseUsage ==
  /\ usage = None
  /\ usage' = parseUsage(uargs.url, uargs.item, uargs.isType)
  /\ UNCHANGED <<store, frame, page, uargs, children, code, toc>>

InitUsage ==
  /\ store = [entries |-> <<>>, url |-> <<>>, includePrivate |-> FALSE,
              namespaces |-> <<>>]
  /\ frame = None
  /\ page = None
  /\ uargs \in [url : Urls, item : Items \cup {Undefined}, isType : IsTypeValues]
  /\ usage = None
  /\ children = <<>>
  /\ code = None
  /\ toc = None

NextUsage == CallParseUsage

SpecUsage == InitUsage /\ [][NextUsage]_vars

\* CodeBlock applied to the node list
CallCodeBlock ==
  /\ code = None
  /\ code' = [tag |-> "elements", elements |-> CodeBlock(children)]
  /\ UNCHANGED <<store, frame, page, uargs, usage, children, toc>>

\* DocToc applied to the node list
CallDocToc ==
  /\ toc = None
  /\ toc' = DocToc(children)
  /\ UNCHANGED <<store, frame, page, uargs, usage, children, code>>

InitBlocks ==
  /\ store = [entries |-> <<>>, url |-> <<>>, includePrivate |-> FALSE,
              namespaces |-> <<>>]
  /\ frame = None
  /\ page = None
  /\ uargs = NoArgs
  /\ usage = None
  /\ children \in NodeLists
  /\ code = None
  /\ toc = None

NextBlocks == CallCodeBlock \/ CallDocToc

SpecBlocks == InitBlocks /\ [][NextBlocks]_vars

TypeOK ==
  /\ page.tag \in {"none", "error", "page", "module"}
  /\ usage.tag \in {"none", "usage"}
  /\ code.tag \in {"none", "elements"}
  /\ toc.tag \in {"none", "undefined", "toc"}

\* ------------------------------------------------ vocabulary of the claims
Dots(s) == {i \in 1..Len(s) : s[i] = "."}

MaxOf(S) == CHOOSE m \in S : \A x \in S : x <= m
MinOf(S) == CHOOSE m \in S : \A x \in S : m <= x

SegmentCount(s) == Cardinality(Dots(s)) + 1

FirstSegment(s) ==
  IF Dots(s) = {} THEN s ELSE SubSeq(s, 1, MinOf(Dots(s)) - 1)

LastSegment(s) ==
  IF Dots(s) = {} THEN s ELSE SubSeq(s, MaxOf(Dots(s)) + 1, Len(s))

\* the text before the last dot, the empty string when there is no dot
BeforeLastDot(s) ==
  IF Dots(s) = {} THEN <<>> ELSE SubSeq(s, 1, MaxOf(Dots(s)) - 1)

\* the segments preceding the last one
PrecedingSegments(s) ==
  IF Dots(s) = {} THEN <<>> ELSE Split(BeforeLastDot(s))

NamespacesNamed(es, name) ==
  SelectSeq(es, LAMBDA n : n.kind = "namespace" /\ n.name = name)

RECURSIVE SkipWalk(_, _)
\* resolution that passes over a segment naming no namespace of the current
\* list and goes on with the next segment
SkipWalk(es, segs) ==
  IF segs = <<>> THEN [trail |-> <<>>, final |-> es]
  ELSE LET hits == NamespacesNamed(es, Head(segs)) IN
       IF hits = <<>> THEN SkipWalk(es, Tail(segs))
       ELSE LET r == SkipWalk(namespaceDef(hits[1]), Tail(segs)) IN
            [trail |-> <<hits[1]>> \o r.trail, final |-> r.final]

RECURSIVE StopWalk(_, _)
\* resolution that ends at the first segment naming no namespace of the
\* current list
StopWalk(es, segs) ==
  IF segs = <<>> THEN [trail |-> <<>>, final |-> es]
  ELSE LET hits == NamespacesNamed(es, Head(segs)) IN
       IF hits = <<>> THEN [trail |-> <<>>, final |-> es]
       ELSE LET r == StopWalk(namespaceDef(hits[1]), Tail(segs)) IN
            [trail |-> <<hits[1]>> \o r.trail, final |-> r.final]

RECURSIVE NamesOf(_)
NamesOf(t) == IF t = <<>> THEN <<>> ELSE <<Head(t).name>> \o NamesOf(Tail(t))

\* a DocPage render of a non-empty item has returned
RenderedItem == frame # None /\ Truthy(frame.item)

\* a DocPage render of an item of two or more segments has returned
RenderedDotted == RenderedItem /\ SegmentCount(frame.item) >= 2

\* the entry list the claims call final: the children of the last namespace
\* resolved, the top-level entries when none was
FinalEntryList ==
  LET trail == SkipWalk(store.entries, PrecedingSegments(frame.item)).trail IN
  IF trail = <<>> THEN store.entries ELSE namespaceDef(trail[Len(trail)])

TargetNodeSet ==
  SelectSeq(FinalEntryList,
            LAMBDA n : n.name = LastSegment(frame.item) /\ n.kind # "import")

\* ------------------------------------------------------------------ C1
\* C1: a render of a non-empty item returns the "Entry not found" panel if
\* and only if the target node set is empty; the panel names the item and the
\* url of the store and has no usage block, code block or doc block; every
\* such render returns an element.
C1_NotFoundIffNoTarget ==
  RenderedItem =>
    /\ page.tag \in {"error", "page"}
    /\ (page.tag = "error") <=> (TargetNodeSet = <<>>)
    /\ page.tag = "error" =>
         /\ page.title = <<"Entry not found">>
         /\ \E i \in DOMAIN page.message : page.message[i] = frame.item
         /\ \E i \in DOMAIN page.message : page.message[i] = store.url
         /\ DOMAIN page \cap {"usage", "codeBlock", "doc", "toc"} = {}

C1_Witness ==
  /\ RenderedDotted
  /\ page.tag = "error"
  /\ frame.namespaces # <<>>

\* ------------------------------------------------------------------ C2
\* C2 as stated: resolution stops at the first preceding segment that names
\* no namespace of the current entry list; the trail and the entry list of the
\* final lookup are those reached before that segment.
C2_StopsAtFirstMiss ==
  RenderedDotted =>
    LET w == StopWalk(store.entries, PrecedingSegments(frame.item)) IN
    /\ frame.namespaces = w.trail
    /\ frame.entries = w.final

\* C2 amended: a preceding segment that names no namespace of the current
\* entry list is passed over and the next segment is tried against the same
\* list; the trail holds the namespaces of the segments that matched, in
\* order, and the final lookup uses the entry list reached after the last
\* segment.
C2_PassesOverMisses ==
  RenderedDotted =>
    LET w == SkipWalk(store.entries, PrecedingSegments(frame.item)) IN
    /\ frame.namespaces = w.trail
    /\ frame.entries = w.final

C2_Witness ==
  /\ RenderedDotted
  /\ StopWalk(store.entries, PrecedingSegments(frame.item)).trail = <<>>
  /\ frame.namespaces # <<>>
  /\ frame.entries # store.entries

\* ------------------------------------------------------------------ C3
\* C3: the target node set of a render of a non-empty item is the nodes of
\* the final entry list named by the last segment of the item whose kind is
\* not import, in their order in that list.
C3_TargetNodeSet ==
  RenderedItem => frame.nodes = TargetNodeSet

C3_Witness ==
  /\ RenderedDotted
  /\ frame.namespaces = <<>>
  /\ Len(frame.nodes) >= 2
  /\ \E i \in 1..Len(store.entries) :
       store.entries[i].kind = "import" /\ store.entries[i].name = frame.name

\* ------------------------------------------------------------------ C4
Returned == usage # None

\* C4: localVar is present only when the item has two or more segments, and
\* usageSymbol is present exactly when localVar is.
C4_LocalVarOnlyWhenDotted ==
  Returned =>
    /\ usage.localVar # Undefined =>
         uargs.item # Undefined /\ SegmentCount(uargs.item) >= 2
    /\ (usage.usageSymbol # Undefined) <=> (usage.localVar # Undefined)

\* ------------------------------------------------------------------ C5
\* the symbol of a namespace import: the camelized package name of the url,
\* the camelized "mod" when the url does not parse or has no package
NamespaceSymbol(url) ==
  LET parsed == parseURL(url) IN
  IF parsed = Null THEN camelize(<<"m", "o", "d">>)
  ELSE IF parsed.package = Undefined THEN camelize(<<"m", "o", "d">>)
  ELSE camelize(parsed.package)

\* C5: without an item parseUsage returns no usageSymbol, no localVar and the
\* statement `import * as <Sym> from "<url>";` plus newline, whatever isType.
C5_NamespaceImport ==
  (Returned /\ uargs.item = Undefined) =>
    /\ usage.usageSymbol = Undefined
    /\ usage.localVar = Undefined
    /\ usage.importStatement =
         <<"import * as ">> \o NamespaceSymbol(uargs.url)
           \o <<" from \"">> \o uargs.url \o <<"\";\n">>

C5_Witness ==
  /\ Returned
  /\ uargs.item = Undefined
  /\ uargs.isType = "true"
  /\ uargs.url = UrlX
  /\ usage.importStatement =
       <<"import * as ", "m", "y", "P", " from \"">> \o UrlX \o <<"\";\n">>

\* ------------------------------------------------------------------ C6
ExpectedNamedImport ==
  <<"import ">> \o (IF uargs.isType = "true" THEN <<"type ">> ELSE <<>>)
    \o <<"{ ">> \o FirstSegment(uargs.item) \o <<" } from \"">>
    \o uargs.url \o <<"\";\n">>

ExpectedDestructuring ==
  <<"\nconst { ">> \o LastSegment(uargs.item) \o <<" } = ">>
    \o BeforeLastDot(uargs.item) \o <<";\n">>

\* C6 as stated: for every item given, importSymbol is the first segment and
\* the statement is the named import, typed exactly when isType is true,
\* followed by nothing for one segment and by the destructuring of the last
\* segment out of the joined others for two or more.
C6_NamedImportForEveryItem ==
  (Returned /\ uargs.item # Undefined) =>
    /\ usage.importSymbol = FirstSegment(uargs.item)
    /\ usage.importStatement =
         ExpectedNamedImport
           \o (IF SegmentCount(uargs.item) >= 2 THEN ExpectedDestructuring
               ELSE <<>>)

\* C6 amended: for every non-empty item, importSymbol is the first segment
\* and the statement is the named import, typed exactly when isType is true,
\* followed by the destructuring when the item has two or more segments and
\* its last segment is not empty, and by nothing otherwise; for the empty
\* string importSymbol is empty and the statement is the namespace import.
C6_NamedImportForNonEmptyItem ==
  (Returned /\ uargs.item # Undefined) =>
    /\ usage.importSymbol = FirstSegment(uargs.item)
    /\ uargs.item # <<>> =>
         usage.importStatement =
           ExpectedNamedImport
             \o (IF SegmentCount(uargs.item) >= 2 /\ LastSegment(uargs.item) # <<>>
                 THEN ExpectedDestructuring ELSE <<>>)
    /\ uargs.item = <<>> =>
         usage.importStatement =
           <<"import * as ", " from \"">> \o uargs.url \o <<"\";\n">>

C6_Witness ==
  /\ Returned
  /\ uargs.isType = "true"
  /\ SegmentCount(uargs.item) = 3
  /\ LastSegment(uargs.item) # <<>>
  /\ usage.importStatement = ExpectedNamedImport \o ExpectedDestructuring

\* ------------------------------------------------------------------ C7
TocKinds == {"class", "enum", "interface", "namespace", "typeAlias"}

TocOf(node) ==
  [tag |-> "toc", node |-> node,
   renderer |-> CASE node.kind = "class" -> "ClassToc"
                  [] node.kind = "enum" -> "EnumToc"
                  [] node.kind = "interface" -> "InterfaceToc"
                  [] node.kind = "namespace" -> "NamespaceToc"
                  [] node.kind = "typeAlias" -> "TypeAliasToc"]

Interfaces(ns) == {i \in 1..Len(ns) : ns[i].kind = "interface"}

\* C7: DocToc renders the table of contents of the only node when its kind
\* has one, that of the first interface of a list of exactly two nodes, and
\* nothing for any other list.
C7_TocRule ==
  toc # None =>
    toc = IF Len(children) = 1 /\ children[1].kind \in TocKinds
            THEN TocOf(children[1])
          ELSE IF Len(children) = 2 /\ Interfaces(children) # {}
            THEN TocOf(children[MinOf(Interfaces(children))])
          ELSE Nothing

C7_Witness ==
  /\ toc # None
  /\ Len(children) = 2
  /\ children[1].kind = "variable"
  /\ toc.tag = "toc"
  /\ toc.node = children[2]

\* ------------------------------------------------------------------ C8
BlockKinds == {"class", "enum", "interface", "typeAlias", "variable"}

BlockOf(node) ==
  [nodes |-> <<node>>,
   block |-> CASE node.kind = "class" -> "ClassCodeBlock"
               [] node.kind = "enum" -> "EnumCodeBlock"
               [] node.kind = "interface" -> "InterfaceCodeBlock"
               [] node.kind = "typeAlias" -> "TypeAliasCodeBlock"
               [] node.kind = "variable" -> "VariableCodeBlock"]

\* C8: CodeBlock emits one block per class, enum, interface, typeAlias or
\* variable node, in input order, and one block holding all the function
\* nodes when there is any; nothing else.
C8_CodeBlocks ==
  code # None =>
    LET plain == SelectSeq(children, LAMBDA n : n.kind \in BlockKinds)
        fns == SelectSeq(children, LAMBDA n : n.kind = "function")
        own == SelectSeq(code.elements, LAMBDA e : e.block # "FnCodeBlock")
        merged == SelectSeq(code.elements, LAMBDA e : e.block = "FnCodeBlock")
    IN /\ Len(own) = Len(plain)
       /\ \A i \in 1..Len(plain) : own[i] = BlockOf(plain[i])
       /\ merged = IF fns = <<>> THEN <<>>
                   ELSE << [block |-> "FnCodeBlock", nodes |-> fns] >>
       /\ Len(code.elements) = Len(plain) + (IF fns = <<>> THEN 0 ELSE 1)

C8_Witness ==
  /\ code # None
  /\ Cardinality({i \in 1..Len(children) : children[i].kind = "function"}) = 2
  /\ \E i \in 1..Len(children) : children[i].kind = "namespace"
  /\ Len(code.elements) = 1

\* ------------------------------------------------------------------ C9
\* C9: right after a render of an item of two or more segments the
\* namespaces of the store are the trail resolved by that render, whatever
\* trail an earlier render left there.
C9_TrailOverwritten ==
  RenderedDotted =>
    /\ store.namespaces = frame.namespaces
    /\ store.namespaces =
         SkipWalk(store.entries, PrecedingSegments(frame.item)).trail

C9_Witness ==
  /\ RenderedDotted
  /\ Len(frame.before) = 2
  /\ Len(store.namespaces) = 1
  /\ store.namespaces[1] # frame.before[1]

\* ----------------------------------------------------------------- C10
NamespaceDocs ==
  SelectSeq(page.doc.elements, LAMBDA e : e.block = "NamespaceDoc")

\* C10 as stated: the path handed to Doc, and by Doc to NamespaceDoc, is the
\* names of the namespaces resolved for the item.
C10_PathIsResolvedNames ==
  (RenderedItem /\ page.tag = "page") =>
    /\ page.doc.path = NamesOf(frame.namespaces)
    /\ \A i \in 1..Len(NamespaceDocs) :
         NamespaceDocs[i].path = NamesOf(frame.namespaces)

\* C10 amended: the path handed to Doc, and by Doc to NamespaceDoc, is the
\* segments of the item that precede the last one, resolved or not; it is the
\* names of the namespaces trail exactly when every one of them resolved.
C10_PathIsPrecedingSegments ==
  (RenderedItem /\ page.tag = "page") =>
    /\ page.doc.path = PrecedingSegments(frame.item)
    /\ \A i \in 1..Len(NamespaceDocs) :
         NamespaceDocs[i].path = PrecedingSegments(frame.item)
    /\ (page.doc.path = NamesOf(frame.namespaces))
         <=> (Len(frame.namespaces) = Len(PrecedingSegments(frame.item)))

C10_Witness ==
  /\ RenderedDotted
  /\ page.tag = "page"
  /\ Len(NamespaceDocs) = 1
  /\ Len(frame.namespaces) < Len(NamespaceDocs[1].path)

\* ----------------------------------------------------------------- C11
\* what one render may do to the store: nothing at all when its item is
\* absent or has one segment, and nothing to entries, url and includePrivate
\* in any case
C11_Step ==
  /\ store'.entries = store.entries
  /\ store'.url = store.url
  /\ store'.includePrivate = store.includePrivate
  /\ (~Truthy(frame'.item) \/ SegmentCount(frame'.item) = 1) =>
       /\ store' = store
       /\ store'.namespaces = frame'.before

\* C11: a render whose item is absent or has a single segment writes nothing
\* to the store, so the namespaces trail left by an earlier render of a dotted
\* item stays there; no render changes the entries, the url or includePrivate
\* of the store.
C11_StoreFrame == [][C11_Step]_vars

C11_Witness ==
  /\ RenderedItem
  /\ SegmentCount(frame.item) = 1
  /\ page.tag = "page"
  /\ Len(frame.before) = 2
  /\ store.namespaces = frame.before
  /\ store.entries = ModuleEntries

====
